---- MODULE Spec2Model ----
(***************************************************************************)
(* A model of github.com/tjcain/limit: the rate limiting http.RoundTripper *)
(* (limit.go) and its redis backed leaky bucket (redis/redis.go).          *)
(*                                                                         *)
(* Time is counted in milliseconds since the start of the run.  The redis  *)
(* server is one key (every Bucket of the application shares Config.AppKey)*)
(* holding an integer and an optional expiry.  Every redis command is one  *)
(* atomic step; the goroutines that call Transport.RoundTrip interleave    *)
(* between any two commands.  A command may fail (a connection fault): it  *)
(* then has no effect on the server and returns an error to the caller.    *)
(***************************************************************************)
EXTENDS Integers, Sequences, FiniteSets, TLC

\* ------------------------------------------------------------------ bounds

\* Config.RequestLimit of a running Bucket ranges over 1..MaxCap.
MaxCap == 2
\* RoundTrip calls issued by the caller of the sequential scenario.
MaxCalls == 4
\* Faults (failed redis commands, failed downstream round trips) per run.
MaxFaults == 1
\* Clock advances per run, each of half a window.
MaxTicks == 3
\* Direct drain calls in a row.
MaxDrains == 3

\* ------------------------------------------------------- program constants

StatusTooManyRequests == 429
StatusOK == 200
\* Config.LimitDuration of the test configuration, time.Second, in ms.
LimitDuration == 1000
\* time.Duration.Seconds(): milliseconds in one second.
MsPerSecond == 1000
\* PTTL's replies for a key that does not exist / that has no expiry.
PTTLNoKey == -2
PTTLNoExpire == -1
\* The amount Transport.RoundTrip consumes per request.
ConsumeAmount == 1

xRateLimit == "X-Rate-Limit-Limit"
xRateLimitRemaining == "X-Rate-Limit-Remaining"
xRateLimitRest == "X-Rate-Limit-Limit"

Nil == "nil"
ErrToManyRequests == "Too Many Requests"
ErrNoAppKey == "please provide appkey"
ErrStore == "redis: connection fault"
ErrDownstream == "downstream: round trip failed"
DefaultAppKey == "test-app-key"

\* The goroutines calling RoundTrip, and the Bucket (one per process) each
\* of them uses: a1 and a2 share the Bucket of process A, b1 uses B's.
Callers == {"a1", "a2", "b1"}
Buckets == {"A", "B"}
BucketOf(c) == IF c = "b1" THEN "B" ELSE "A"
SeqCaller == "a1"

TickMs == LimitDuration \div 2

\* ------------------------------------------------------------ time.Time

\* The zero time.Time (a Bucket's reset before any drain) and a set one.
ZeroTime == [zero |-> TRUE, ms |-> 0]
At(t) == [zero |-> FALSE, ms |-> t]

\* int(d.Seconds()): a duration in ms truncated toward zero to seconds.
TruncSeconds(d) ==
    IF d >= 0 THEN d \div MsPerSecond ELSE -((-d) \div MsPerSecond)

\* ------------------------------------------------------------ strconv.Itoa

Digit(d) ==
    CASE d = 0 -> "0" [] d = 1 -> "1" [] d = 2 -> "2" [] d = 3 -> "3"
      [] d = 4 -> "4" [] d = 5 -> "5" [] d = 6 -> "6" [] d = 7 -> "7"
      [] d = 8 -> "8" [] OTHER -> "9"

RECURSIVE ItoaNat(_)
ItoaNat(n) == IF n < 10 THEN Digit(n) ELSE ItoaNat(n \div 10) \o Digit(n % 10)

Itoa(n) == IF n < 0 THEN "-" \o ItoaNat(-n) ELSE ItoaNat(n)

\* ------------------------------------------------------------ http.Header

\* A header is a set of <<name, value>> pairs, one value per name.
HeaderSet(h, k, v) == {p \in h : p[1] # k} \cup {<<k, v>>}

\* ------------------------------------------------------------ limit.State

ZeroState == [Capacity |-> 0, Space |-> 0, Reset |-> ZeroTime]

\* int(time.Now().Sub(s.Reset).Seconds()) as Itoa prints it.  Sub saturates:
\* now minus the zero time is the maximum Duration, 9223372036 whole seconds.
ResetSeconds(s, t) ==
    IF s.Reset.zero THEN "9223372036" ELSE Itoa(TruncSeconds(t - s.Reset.ms))

\* State.setXRateHeaders: three Header.Set calls, in the code's order.
SetXRateHeaders(s, h, t) ==
    HeaderSet(
        HeaderSet(HeaderSet(h, xRateLimit, Itoa(s.Capacity)),
                  xRateLimitRemaining, Itoa(s.Space)),
        xRateLimitRest, ResetSeconds(s, t))

\* ------------------------------------------------------------ the redis key

Absent == [present |-> FALSE, val |-> 0, ttl |-> FALSE, exp |-> 0]

\* A key with an expiry lives until the clock passes it.
Live(s, t) == s.present /\ (~s.ttl \/ t <= s.exp)

\* The server dropping a key whose expiry has passed.
Expire(s, t) == IF Live(s, t) THEN s ELSE Absent

\* tx.Get(b.key).Int(): redis.Nil (and n = 0) when the key does not exist.
GetInt(s, t) ==
    IF Live(s, t) THEN [isNil |-> FALSE, n |-> s.val]
    ELSE [isNil |-> TRUE, n |-> 0]

\* rdb.Set(b.key, v, rate): an expiry is sent only when rate > 0.
SetEx(v, t, rate) ==
    [present |-> TRUE, val |-> v, ttl |-> rate > 0,
     exp |-> IF rate > 0 THEN t + rate ELSE 0]

\* tx.IncrBy(b.key, amt): a missing key counts from 0 and gets no expiry.
IncrBy(s, t, amt) ==
    IF Live(s, t) THEN [s EXCEPT !.val = @ + amt]
    ELSE [present |-> TRUE, val |-> amt, ttl |-> FALSE, exp |-> 0]

\* rdb.Do("PTTL", b.key).Int()
PTTL(s, t) ==
    IF ~Live(s, t) THEN PTTLNoKey
    ELSE IF ~s.ttl THEN PTTLNoExpire
    ELSE s.exp - t

\* ------------------------------------------------------------ redis.Bucket

ZeroBucket ==
    [rdb |-> Nil, key |-> "", capacity |-> 0, space |-> 0,
     reset |-> ZeroTime, rate |-> 0]

\* NewBucket: Ping, then the AppKey check, then the Bucket.
NewBucket(cf, pingOK) ==
    IF ~pingOK THEN [bucket |-> ZeroBucket, err |-> ErrStore]
    ELSE IF cf.AppKey = "" THEN [bucket |-> ZeroBucket, err |-> ErrNoAppKey]
    ELSE [bucket |-> [rdb |-> "client", key |-> cf.AppKey,
                      capacity |-> cf.RequestLimit, space |-> 0,
                      reset |-> ZeroTime, rate |-> cf.LimitDuration],
          err |-> Nil]

\* Bucket.state
StateOf(b) == [Capacity |-> b.capacity, Space |-> b.space, Reset |-> b.reset]

\* Variant: > for >=.
AtCapacityStrict(n, capacity) == n > capacity

\* Consume's check before the increment: n >= b.capacity.
AtCapacity(n, capacity) == n >= capacity

\* Consume on redis.Nil: the key is set to 0 with the window as its expiry.
\* Variant: the initialising write left out.
InitKeySkipped(s, t, rate) == s

InitKey(s, t, rate) == SetEx(0, t, rate)

\* Consume's check after the increment: int(count) > b.capacity.
\* Variant: >= for >.
OverflowAtLimit(count, capacity) == count >= capacity

Overflow(count, capacity) == count > capacity

\* Variant: the subtraction the other way round.
SpaceAfterReversed(capacity, count) == count - capacity

\* Consume's cached space after an accepted increment.
SpaceAfter(capacity, count) == capacity - count

\* drain's test for a lapsed or missing expiry: pttl < 1.
NeedsReset(pttl) == pttl < 1

\* Variant: drain's error, when there is one, takes the place of Consume's.
ConsumeErrDrainSurfaced(verdict, drainErr) ==
    IF drainErr # Nil THEN drainErr ELSE verdict

\* The error Consume returns: the one its transaction or its checks left;
\* every call site of b.drain() discards drain's result.
ConsumeErr(verdict, drainErr) == verdict

\* drain's cached reset: time.Now().Add(time.Duration(pttl) * time.Millisecond).
ResetAt(t, pttl) == At(t + pttl)

\* ------------------------------------------------------------ limit.Transport

NoBody == "<nil>"

NoResp ==
    [isNil |-> TRUE, StatusCode |-> 0, Status |-> "", Header |-> {},
     Body |-> NoBody]

\* The response RoundTrip builds for a request over the limit.
RejectResponse(s, t) ==
    [isNil |-> FALSE, StatusCode |-> StatusTooManyRequests,
     Status |-> "Too Many Requests", Header |-> SetXRateHeaders(s, {}, t),
     Body |-> NoBody]

\* What the wrapped RoundTripper returns when it succeeds (the test server).
DownstreamResponse ==
    [isNil |-> FALSE, StatusCode |-> StatusOK, Status |-> "200 OK",
     Header |-> {<<"Content-Type", "text/plain; charset=utf-8">>},
     Body |-> "OK"]

\* state.setXRateHeaders(resp) on the wrapped RoundTripper's response.
Stamp(resp, s, t) == [resp EXCEPT !.Header = SetXRateHeaders(s, @, t)]

\* errors.Is(err, ErrToManyRequests)
\* Variant: a comparison that never matches the sentinel.
IsTooManyNever(err) == FALSE

IsTooMany(err) == err = ErrToManyRequests

\* RoundTrip's branch on Consume's error.
\* Variant: failing open, any error but the sentinel lets the request through.
RoundTripBranchFailOpen(cerr) ==
    IF IsTooMany(cerr) THEN "reject" ELSE "forward"

RoundTripBranch(cerr) ==
    IF cerr # Nil
    THEN (IF IsTooMany(cerr) THEN "reject" ELSE "fail")
    ELSE "forward"

\* ------------------------------------------------------------------ state

VARIABLES
    cfg,         \* the Config handed to NewBucket
    ping,        \* whether rdb.Ping() succeeds at construction
    built,       \* NewBucket's return values, once it has run
    bucket,      \* each process's *Bucket
    store,       \* the redis key
    now,         \* the clock, ms
    faultsLeft,  \* faults the environment may still inject
    ticksLeft,   \* clock advances still to come
    left,        \* RoundTrip calls each caller has yet to issue
    call,        \* the locals of each caller's RoundTrip/Consume/drain
    out          \* each caller's completed RoundTrip calls, in order

vars ==
    <<cfg, ping, built, bucket, store, now, faultsLeft, ticksLeft, left, call,
      out>>

NotBuilt == [done |-> FALSE, bucket |-> ZeroBucket, err |-> Nil]

IdleCall ==
    [pc |-> "idle", n |-> 0, count |-> 0, pttl |-> 0, verdict |-> Nil,
     state |-> ZeroState, cerr |-> Nil, t0 |-> 0,
     faulted |-> {}, incremented |-> FALSE, pre |-> ZeroState, seen |-> {},
     solo |-> FALSE, obs |-> <<>>]

\* The outcomes a redis command or a downstream round trip may have.
Outcomes == IF faultsLeft > 0 THEN {TRUE, FALSE} ELSE {TRUE}

Spend(ok) == faultsLeft' = IF ok THEN faultsLeft ELSE faultsLeft - 1

\* Configurations NewBucket accepts and that limit requests.
RunCfgs ==
    [AppKey : {DefaultAppKey}, RedisDB : {0},
     RequestLimit : 1..MaxCap, LimitDuration : {LimitDuration}]

\* Any configuration a program may pass.
AnyCfgs ==
    [AppKey : {"", DefaultAppKey}, RedisDB : {0, 1},
     RequestLimit : -1..MaxCap,
     LimitDuration : {-LimitDuration, 0, LimitDuration}]

\* A run of the program after every process built its Bucket from cf.
Started(cf, quota, faults, ticks) ==
    /\ cfg = cf
    /\ ping = TRUE
    /\ built = [done |-> TRUE] @@ NewBucket(cf, TRUE)
    /\ bucket = [b \in Buckets |-> NewBucket(cf, TRUE).bucket]
    /\ store = Absent
    /\ now = 0
    /\ faultsLeft = faults
    /\ ticksLeft = ticks
    /\ left = quota
    /\ call = [c \in Callers |-> IdleCall]
    /\ out = [c \in Callers |-> <<>>]

\* One Transport, one caller, sequential requests, no faults, while the
\* clock runs.
SeqInit ==
    \E cf \in RunCfgs :
        Started(cf, [c \in Callers |-> IF c = SeqCaller THEN MaxCalls ELSE 0],
                0, MaxTicks)

\* Three concurrent callers over two Buckets, one request each, within one
\* instant.
ConcInit ==
    \E cf \in RunCfgs : Started(cf, [c \in Callers |-> 1], 0, 0)

\* Two concurrent callers of one Bucket, one request each, within one
\* instant, with faults.
RaceInit ==
    \E cf \in RunCfgs :
        Started(cf, [c \in Callers |-> IF BucketOf(c) = "A" THEN 1 ELSE 0],
                MaxFaults, 0)

\* Two processes, one request each, while the clock runs.
PairInit ==
    \E cf \in RunCfgs :
        Started(cf, [c \in Callers |-> IF c = "a2" THEN 0 ELSE 1], 0, MaxTicks)

\* One caller, two sequential requests, with faults, while the clock runs.
FaultInit ==
    \E cf \in RunCfgs :
        Started(cf, [c \in Callers |-> IF c = SeqCaller THEN 2 ELSE 0],
                MaxFaults, MaxTicks)

Init == SeqInit \/ ConcInit \/ RaceInit \/ PairInit \/ FaultInit

\* Before construction: NewBucket is about to run on any configuration.
CtorInit ==
    /\ cfg \in AnyCfgs
    /\ ping \in BOOLEAN
    /\ built = NotBuilt
    /\ bucket = [b \in Buckets |-> ZeroBucket]
    /\ store = Absent
    /\ now = 0
    /\ faultsLeft = 0
    /\ ticksLeft = 0
    /\ left = [c \in Callers |-> 0]
    /\ call = [c \in Callers |-> IdleCall]
    /\ out = [c \in Callers |-> <<>>]

\* ------------------------------------------------------------------ actions

\* NewBucket(cfg) in every process.
Construct ==
    /\ ~built.done
    /\ built' = [done |-> TRUE] @@ NewBucket(cfg, ping)
    /\ bucket' = [b \in Buckets |-> NewBucket(cfg, ping).bucket]
    /\ UNCHANGED <<cfg, ping, store, now, faultsLeft, ticksLeft, left, call,
                 out>>

\* The clock advances; the server drops the key if its expiry has passed.
Tick ==
    /\ ticksLeft > 0
    /\ ticksLeft' = ticksLeft - 1
    /\ now' = now + TickMs
    /\ store' = Expire(store, now')
    /\ UNCHANGED <<cfg, ping, built, bucket, faultsLeft, left, call, out>>

\* A caller enters Transport.RoundTrip, which calls t.Bucket.Consume(1);
\* pre keeps the Bucket's cached state as the call found it.
Begin(c) ==
    /\ call[c].pc = "idle"
    /\ left[c] > 0
    /\ left' = [left EXCEPT ![c] = @ - 1]
    /\ call' = [call EXCEPT ![c] =
         [IdleCall EXCEPT !.pc = "get", !.t0 = now,
                          !.pre = StateOf(bucket[BucketOf(c)])]]
    /\ UNCHANGED <<cfg, ping, built, bucket, store, now, faultsLeft,
                 ticksLeft, out>>

\* Consume: rdb.Watch opens the transaction and the closure reads the key.
\* A fault in WATCH or GET ends the closure with that error; redis.Nil
\* leads to the initialising Set; otherwise the capacity check follows.
TxGet(c) ==
    /\ call[c].pc = "get"
    /\ \E ok \in Outcomes :
        LET b == bucket[BucketOf(c)]
            r == GetInt(store, now)
        IN  /\ Spend(ok)
            /\ call' = [call EXCEPT ![c] =
                 IF ~ok
                 THEN [@ EXCEPT !.pc = "ret", !.verdict = ErrStore,
                                !.faulted = @ \cup {"get"}]
                 ELSE IF r.isNil
                 THEN [@ EXCEPT !.pc = "set", !.n = r.n]
                 ELSE IF AtCapacity(r.n, b.capacity)
                 THEN [@ EXCEPT !.pc = "pttl", !.n = r.n,
                                !.verdict = ErrToManyRequests]
                 ELSE [@ EXCEPT !.pc = "incr", !.n = r.n]]
    /\ UNCHANGED <<cfg, ping, built, bucket, store, now, ticksLeft, left, out>>

\* Consume, on redis.Nil: b.rdb.Set(b.key, 0, b.rate), its result dropped,
\* then the capacity check on n = 0.
InitSet(c) ==
    /\ call[c].pc = "set"
    /\ \E ok \in Outcomes :
        LET b == bucket[BucketOf(c)]
        IN  /\ Spend(ok)
            /\ store' = IF ok THEN InitKey(store, now, b.rate) ELSE store
            /\ call' = [call EXCEPT ![c] =
                 LET f == IF ok THEN call[c].faulted
                          ELSE call[c].faulted \cup {"set"}
                 IN  IF AtCapacity(call[c].n, b.capacity)
                     THEN [@ EXCEPT !.pc = "pttl", !.faulted = f,
                                    !.verdict = ErrToManyRequests]
                     ELSE [@ EXCEPT !.pc = "incr", !.faulted = f]]
    /\ UNCHANGED <<cfg, ping, built, bucket, now, ticksLeft, left, out>>

\* Consume: tx.IncrBy inside TxPipelined's callback runs at once on the
\* transaction's connection; the pipeline itself stays empty, so nothing is
\* queued and no EXEC is sent.  The error lands in err and is not read
\* again: on a fault count stays 0.  Then the overflow check.
TxIncr(c) ==
    /\ call[c].pc = "incr"
    /\ \E ok \in Outcomes :
        LET b == bucket[BucketOf(c)]
            s == IF ok THEN IncrBy(store, now, ConsumeAmount) ELSE store
            count == IF ok THEN s.val ELSE 0
        IN  /\ Spend(ok)
            /\ store' = s
            /\ call' = [call EXCEPT ![c] =
                 LET d == [@ EXCEPT !.count = count, !.incremented = ok,
                             !.faulted = IF ok THEN @ ELSE @ \cup {"incr"}]
                 IN  IF Overflow(count, b.capacity)
                     THEN [d EXCEPT !.pc = "pttl", !.verdict = ErrToManyRequests]
                     ELSE [d EXCEPT !.pc = "space"]]
    /\ UNCHANGED <<cfg, ping, built, bucket, now, ticksLeft, left, out>>

\* Consume: b.space = b.capacity - int(count), under the mutex.
SetSpace(c) ==
    /\ call[c].pc = "space"
    /\ bucket' = [bucket EXCEPT ![BucketOf(c)].space =
                    SpaceAfter(bucket[BucketOf(c)].capacity, call[c].count)]
    /\ call' = [call EXCEPT ![c].pc = "pttl"]
    /\ UNCHANGED <<cfg, ping, built, store, now, faultsLeft, ticksLeft, left,
                 out>>

\* drain: rdb.Watch, then PTTL.  A fault ends drain with an error that
\* Consume drops.
DrainPTTL(c) ==
    /\ call[c].pc = "pttl"
    /\ \E ok \in Outcomes :
        LET p == PTTL(store, now)
        IN  /\ Spend(ok)
            /\ call' = [call EXCEPT ![c] =
                 IF ~ok
                 THEN [@ EXCEPT !.pc = "ret", !.faulted = @ \cup {"drain"}]
                 ELSE IF NeedsReset(p)
                 THEN [@ EXCEPT !.pc = "dset", !.pttl = p]
                 ELSE [@ EXCEPT !.pc = "dreset", !.pttl = p]]
    /\ UNCHANGED <<cfg, ping, built, bucket, store, now, ticksLeft, left, out>>

\* drain, when pttl < 1: b.rdb.Set(b.key, 0, b.rate); a fault ends drain.
DrainSet(c) ==
    /\ call[c].pc = "dset"
    /\ \E ok \in Outcomes :
        LET b == bucket[BucketOf(c)]
        IN  /\ Spend(ok)
            /\ store' = IF ok THEN SetEx(0, now, b.rate) ELSE store
            /\ call' = [call EXCEPT ![c] =
                 IF ok THEN [@ EXCEPT !.pc = "dreset"]
                 ELSE [@ EXCEPT !.pc = "ret", !.faulted = @ \cup {"drain"}]]
    /\ UNCHANGED <<cfg, ping, built, bucket, now, ticksLeft, left, out>>

\* drain: b.reset = time.Now().Add(pttl ms), under the mutex.
DrainReset(c) ==
    /\ call[c].pc = "dreset"
    /\ bucket' = [bucket EXCEPT ![BucketOf(c)].reset = ResetAt(now, call[c].pttl)]
    /\ call' = [call EXCEPT ![c].pc = "ret"]
    /\ UNCHANGED <<cfg, ping, built, store, now, faultsLeft, ticksLeft, left,
                 out>>

\* Consume: return b.state(), err.  state() takes no lock and builds the
\* State field by field: here it reads b.capacity and b.space; seen keeps
\* the cached state at each of its reads.
StateRead(c) ==
    /\ call[c].pc = "ret"
    /\ ~call[c].solo
    /\ call' = [call EXCEPT ![c] =
         [@ EXCEPT !.pc = "ret2",
                   !.state = [StateOf(bucket[BucketOf(c)])
                                EXCEPT !.Reset = ZeroTime],
                   !.seen = {StateOf(bucket[BucketOf(c)])}]]
    /\ UNCHANGED <<cfg, ping, built, bucket, store, now, faultsLeft,
                 ticksLeft, left, out>>

\* state() reads b.reset, and Consume returns the State and its error.
ConsumeReturn(c) ==
    /\ call[c].pc = "ret2"
    /\ call' = [call EXCEPT ![c] =
         [@ EXCEPT !.pc = "rt",
                   !.state = [call[c].state
                                EXCEPT !.Reset = bucket[BucketOf(c)].reset],
                   !.seen = call[c].seen \cup {StateOf(bucket[BucketOf(c)])},
                   !.cerr = ConsumeErr(call[c].verdict,
                                       IF "drain" \in call[c].faulted
                                       THEN ErrStore ELSE Nil)]]
    /\ UNCHANGED <<cfg, ping, built, bucket, store, now, faultsLeft,
                 ticksLeft, left, out>>

\* RoundTrip after Consume: the synthesized 429, the error, or the wrapped
\* RoundTripper's response with the headers set.
Respond(c) ==
    /\ call[c].pc = "rt"
    /\ \E ok \in Outcomes :
        LET k == call[c]
            branch == RoundTripBranch(k.cerr)
            sent == IF branch = "forward" THEN 1 ELSE 0
            resp == CASE branch = "reject" -> RejectResponse(k.state, now)
                      [] branch = "fail" -> NoResp
                      [] OTHER -> IF ok THEN Stamp(DownstreamResponse, k.state, now)
                                  ELSE NoResp
            err == CASE branch = "reject" -> Nil
                     [] branch = "fail" -> k.cerr
                     [] OTHER -> IF ok THEN Nil ELSE ErrDownstream
        IN  /\ Spend(ok \/ branch # "forward")
            /\ out' = [out EXCEPT ![c] = Append(@,
                 [resp |-> resp, err |-> err, sent |-> sent, cerr |-> k.cerr,
                  state |-> k.state, count |-> k.count,
                  incremented |-> k.incremented,
                  faulted |-> IF ok \/ branch # "forward" THEN k.faulted
                              ELSE k.faulted \cup {"downstream"},
                  t0 |-> k.t0, t1 |-> now, store |-> store])]
    /\ call' = [call EXCEPT ![c] = IdleCall]
    /\ UNCHANGED <<cfg, ping, built, bucket, store, now, ticksLeft, left>>

\* What an observer of the Bucket notes between drain calls: the cached
\* state, the clock, and the expiry of the live key (0 when there is none).
Observed(c) ==
    [state |-> StateOf(bucket[BucketOf(c)]), t |-> now,
     win |-> IF Live(store, now) /\ store.ttl THEN store.exp ELSE 0]

\* b.drain() called on its own, as code of the package may do between two
\* Consume calls; obs lists what was observed before the first such call
\* and after each.
DrainBegin(c) ==
    /\ call[c].pc = "idle"
    /\ Len(call[c].obs) <= MaxDrains
    /\ call' = [call EXCEPT ![c] =
         [@ EXCEPT !.pc = "pttl", !.solo = TRUE,
                   !.obs = IF call[c].obs = <<>> THEN <<Observed(c)>>
                           ELSE call[c].obs]]
    /\ UNCHANGED <<cfg, ping, built, bucket, store, now, faultsLeft,
                 ticksLeft, left, out>>

\* The direct drain call returns.
DrainEnd(c) ==
    /\ call[c].pc = "ret"
    /\ call[c].solo
    /\ call' = [call EXCEPT ![c] =
         [@ EXCEPT !.pc = "idle", !.solo = FALSE,
                   !.obs = Append(call[c].obs, Observed(c))]]
    /\ UNCHANGED <<cfg, ping, built, bucket, store, now, faultsLeft,
                 ticksLeft, left, out>>

Next ==
    \/ Tick
    \/ \E c \in Callers :
        \/ Begin(c)
        \/ TxGet(c)
        \/ InitSet(c)
        \/ TxIncr(c)
        \/ SetSpace(c)
        \/ DrainPTTL(c)
        \/ DrainSet(c)
        \/ DrainReset(c)
        \/ StateRead(c)
        \/ ConsumeReturn(c)
        \/ Respond(c)

Spec == Init /\ [][Next]_vars

SeqSpec == SeqInit /\ [][Next]_vars

\* One caller, one request and direct drain calls, while the clock runs.
DrainInit ==
    \E cf \in RunCfgs :
        Started(cf, [c \in Callers |-> IF c = SeqCaller THEN 1 ELSE 0],
                0, MaxTicks)

DrainNext ==
    \/ Next
    \/ DrainBegin(SeqCaller)
    \/ DrainEnd(SeqCaller)

DrainSpec == DrainInit /\ [][DrainNext]_vars

CtorNext == Construct

CtorSpec == CtorInit /\ [][CtorNext]_vars

\* ------------------------------------------------------------------ claims

\* The completed RoundTrip calls, as <<caller, index>>.
Entries == {<<c, i>> \in Callers \X (1..MaxCalls + 1) : i <= Len(out[c])}
Entry(x) == out[x[1]][x[2]]

AllIdle == \A c \in Callers : call[c].pc = "idle"
NoFaultSoFar ==
    /\ \A x \in Entries : Entry(x).faulted = {}
    /\ \A c \in Callers : call[c].faulted = {}

Min(a, b) == IF a < b THEN a ELSE b
Max(a, b) == IF a > b THEN a ELSE b

Capacity == cfg.RequestLimit

\* The value a response header holds under a name, "" when it holds none.
HeaderHas(h, k) == \E p \in h : p[1] = k
HeaderGet(h, k) ==
    IF HeaderHas(h, k) THEN (CHOOSE p \in h : p[1] = k)[2] ELSE ""
Remaining(e) == HeaderGet(e.resp.Header, xRateLimitRemaining)

\* Decimal strings of the positive numbers a reset header can show.
PositiveDecimals ==
    {Itoa(k) : k \in 1..((MaxTicks + 2) * LimitDuration) \div MsPerSecond}
        \cup {"9223372036"}

\* Whole seconds from t until the reset time, never negative.
SecondsUntil(reset, t) ==
    IF reset.zero THEN 0 ELSE Max(0, (reset.ms - t) \div MsPerSecond)

\* C1: once N Consume(1) calls on a fresh key have all returned, within one
\* window and with no store fault, exactly min(N, Capacity) of them returned
\* nil and the other N - Capacity returned ErrToManyRequests, whatever the
\* interleaving of the callers' redis commands.
C1_ExactlyMinAccepted ==
    (AllIdle /\ NoFaultSoFar /\ now < LimitDuration) =>
        LET n == Cardinality(Entries)
            acc == Cardinality({x \in Entries : Entry(x).cerr = Nil})
            rej == Cardinality({x \in Entries :
                                  Entry(x).cerr = ErrToManyRequests})
        IN  acc = Min(n, Capacity) /\ rej = n - acc

\* C2: one Transport alone on a fresh key, sequential requests within one
\* window: the i-th request (from 1) gets 200 and remaining Capacity - i
\* while i <= Capacity, and 429 and remaining 0 after that.
C2_SequentialStatuses ==
    now < LimitDuration =>
        \A i \in 1..Len(out[SeqCaller]) :
            LET e == out[SeqCaller][i]
            IN  /\ ~e.resp.isNil
                /\ e.err = Nil
                /\ i <= Capacity =>
                     /\ e.resp.StatusCode = StatusOK
                     /\ Remaining(e) = Itoa(Capacity - i)
                /\ i > Capacity =>
                     /\ e.resp.StatusCode = StatusTooManyRequests
                     /\ Remaining(e) = Itoa(0)

\* Capacity 2, four requests within one window: 200, 200, 429, 429.
C2_Witness ==
    /\ Capacity = 2
    /\ now < LimitDuration
    /\ Len(out[SeqCaller]) = 4
    /\ out[SeqCaller][2].resp.StatusCode = StatusOK
    /\ out[SeqCaller][4].resp.StatusCode = StatusTooManyRequests

\* C3: a sequential caller whose last request was rejected and who then
\* waits more than one window: the next Consume(1) (itself shorter than a
\* window) is accepted with Space = Capacity - 1, and leaves the counter at 1
\* with an expiry one window after the write that re-created it.
C3_WindowReset ==
    \A i \in 2..Len(out[SeqCaller]) :
        LET p == out[SeqCaller][i - 1]
            e == out[SeqCaller][i]
        IN  (/\ p.cerr = ErrToManyRequests
             /\ e.t0 - p.t1 > LimitDuration
             /\ e.t1 - e.t0 < LimitDuration)
            => /\ e.cerr = Nil
               /\ e.state.Space = Capacity - 1
               /\ e.store.present
               /\ e.store.val = 1
               /\ e.store.ttl
               /\ e.store.exp - LimitDuration \in e.t0..e.t1

\* Capacity accepts, a reject with Space = 0, more than a window, an accept.
C3_Witness ==
    \E i \in 2..Len(out[SeqCaller]) :
        LET p == out[SeqCaller][i - 1]
            e == out[SeqCaller][i]
        IN  /\ i = Capacity + 2
            /\ \A j \in 1..Capacity : out[SeqCaller][j].cerr = Nil
            /\ p.cerr = ErrToManyRequests
            /\ p.state.Space = 0
            /\ e.t0 - p.t1 > LimitDuration
            /\ e.cerr = Nil
            /\ e.store.val = 1

\* C4: a RoundTrip whose Consume returned ErrToManyRequests returns a 429
\* response without body and a nil error, its headers those that
\* setXRateHeaders writes from the State Consume returned, and the wrapped
\* RoundTripper is not called.
C4_RejectSynthesized ==
    \A x \in Entries :
        LET e == Entry(x)
        IN  e.cerr = ErrToManyRequests =>
              /\ ~e.resp.isNil
              /\ e.resp.StatusCode = StatusTooManyRequests
              /\ e.resp.Body = NoBody
              /\ e.err = Nil
              /\ e.sent = 0
              /\ e.resp.Header = SetXRateHeaders(e.state, {}, e.t1)
              /\ Remaining(e) = Itoa(e.state.Space)

\* A rejected request whose State carries a cached Space above 0.
C4_Witness ==
    \E x \in Entries :
        /\ Entry(x).cerr = ErrToManyRequests
        /\ Entry(x).resp.StatusCode = StatusTooManyRequests
        /\ Entry(x).state.Space > 0

\* C5: a RoundTrip whose Consume returned another error returns that error
\* and no response and does not call the wrapped RoundTripper, which is
\* called, once, exactly when Consume returned nil.
C5_FailClosed ==
    \A x \in Entries :
        LET e == Entry(x)
        IN  /\ e.cerr \notin {Nil, ErrToManyRequests} =>
                 /\ e.err = e.cerr
                 /\ e.resp.isNil
                 /\ e.sent = 0
            /\ e.sent \in {0, 1}
            /\ e.sent = 1 <=> e.cerr = Nil

\* A request that ended on a store error from Consume.
C5_Witness ==
    \E x \in Entries :
        /\ Entry(x).cerr = ErrStore
        /\ Entry(x).err = ErrStore
        /\ Entry(x).resp.isNil

\* C6: a Consume in which the counter read, the initialising write or the
\* increment failed returns an error that is not ErrToManyRequests, and
\* RoundTrip does not forward the request.
C6_StoreFaultIsError ==
    \A x \in Entries :
        LET e == Entry(x)
        IN  e.faulted \cap {"get", "set", "incr"} # {} =>
              /\ e.cerr \notin {Nil, ErrToManyRequests}
              /\ e.sent = 0

\* C7: every 429 response reports remaining 0 and a reset above 0.
C7_RejectedHeaders ==
    \A x \in Entries :
        LET e == Entry(x)
        IN  (~e.resp.isNil /\ e.resp.StatusCode = StatusTooManyRequests) =>
              /\ Remaining(e) = Itoa(0)
              /\ HeaderGet(e.resp.Header, xRateLimitRest) \in PositiveDecimals

\* C8: the State a successful Consume returns, and the remaining header of
\* the accepted response, show Capacity minus the counter value that call's
\* own increment produced.
C8_AcceptedSpace ==
    \A x \in Entries :
        LET e == Entry(x)
        IN  (e.cerr = Nil /\ e.incremented /\ NoFaultSoFar) =>
              /\ e.state.Space = Capacity - e.count
              /\ ~e.resp.isNil => Remaining(e) = Itoa(Capacity - e.count)

\* C9: every response carries the three headers under three distinct names:
\* the capacity, State.Space, and the whole seconds until State.Reset.
C9_ThreeDistinctHeaders ==
    \A x \in Entries :
        LET e == Entry(x)
            h == e.resp.Header
        IN  ~e.resp.isNil =>
              /\ Cardinality({xRateLimit, xRateLimitRemaining,
                              xRateLimitRest}) = 3
              /\ HeaderGet(h, xRateLimit) = Itoa(e.state.Capacity)
              /\ HeaderGet(h, xRateLimitRemaining) = Itoa(e.state.Space)
              /\ HeaderGet(h, xRateLimitRest) =
                   Itoa(SecondsUntil(e.state.Reset, e.t1))

\* C10: NewBucket returns a nil error exactly when the key is non-empty, the
\* capacity and the window are positive and Ping succeeded, and hands out no
\* usable Bucket with an error.
C10_NewBucketValidates ==
    built.done =>
        /\ built.err = Nil <=>
             /\ cfg.AppKey # ""
             /\ cfg.RequestLimit > 0
             /\ cfg.LimitDuration > 0
             /\ ping
        /\ built.err # Nil => built.bucket.rdb = Nil

\* Consume calls that have run their increment, finished or still running.
IncrementsDone ==
    Cardinality({x \in Entries : Entry(x).incremented})
        + Cardinality({c \in Callers : call[c].incremented})

\* C11: the counter in the store never exceeds Capacity + 1 (every caller
\* consumes 1), whatever the number of concurrent callers and their
\* interleaving, and lies in 0..Capacity whenever no Consume is running.
C11_CounterBounded ==
    Live(store, now) =>
        /\ store.val <= Capacity + ConsumeAmount
        /\ AllIdle => store.val \in 0..Capacity

\* C12: no update is lost: within the first window of a fresh key, and with
\* no store fault, the counter equals the sum of the increments performed so
\* far; no caller's initialising SET 0 and no drain's reset wipes an
\* increment already applied.
C12_NoLostUpdate ==
    (NoFaultSoFar /\ now < LimitDuration /\ Live(store, now)) =>
        store.val = ConsumeAmount * IncrementsDone

\* C14: a Consume whose increment takes the counter above Capacity returns
\* ErrToManyRequests and a State whose Space is 0, whatever Space was cached
\* before (calls that met no fault are enough to tell).
C14_OverflowSpaceZero ==
    \A x \in Entries :
        LET e == Entry(x)
        IN  (e.faulted = {} /\ e.incremented /\ e.count > Capacity) =>
              /\ e.cerr = ErrToManyRequests
              /\ e.state.Space = 0

\* C17: whenever no Consume and no drain is running, a counter key that
\* exists carries a TTL and its remaining TTL is within the window (PTTL
\* counts whole milliseconds, so 0 is let through at the expiry instant); an
\* increment that landed on a lapsed key leaves no counter without TTL.
C17_LiveKeyHasTTL ==
    (AllIdle /\ Live(store, now)) =>
        /\ store.ttl
        /\ store.exp - now \in 0..cfg.LimitDuration

\* C19: with Capacity >= 1, the Space of every State a Consume returned lies
\* in 0..Capacity: accepted or rejected, before and after an expiry, with or
\* without a failed store operation.
C19_SpaceInRange ==
    /\ \A x \in Entries : Entry(x).state.Space \in 0..Capacity
    /\ \A c \in Callers :
         call[c].pc = "rt" => call[c].state.Space \in 0..Capacity
    /\ \A b \in Buckets : bucket[b].space \in 0..bucket[b].capacity

\* An accepted call whose increment failed, so that Space = Capacity, and an
\* accepted call after the window expired.
C19_Witness ==
    /\ \E x \in Entries :
         /\ "incr" \in Entry(x).faulted
         /\ Entry(x).cerr = Nil
         /\ Entry(x).state.Space = Capacity
    /\ \E x \in Entries :
         /\ Entry(x).t0 > LimitDuration
         /\ Entry(x).cerr = Nil

\* C20: the Reset a drain caches is never earlier than the instant the
\* drain wrote it, and a drain that found the TTL absent or below 1 and set
\* the counter anew caches that instant plus the window (runs that met no
\* store fault are enough to tell).
C20_ResetNotStale ==
    [][\A c \in Callers :
         (NoFaultSoFar /\ call[c].pc = "dreset" /\ call'[c].pc = "ret") =>
            LET r == bucket'[BucketOf(c)].reset
            IN  /\ ~r.zero
                /\ r.ms >= now
                /\ NeedsReset(call[c].pttl) =>
                     r = At(now + bucket[BucketOf(c)].rate)]_vars

\* What the read, the capacity check and the increment of a call settle:
\* the store's error when the read failed, ErrToManyRequests when the read
\* found the counter at Capacity or the increment took it above, else nil.
Determined(k) ==
    IF "get" \in k.faulted THEN ErrStore
    ELSE IF k.n >= Capacity \/ k.count > Capacity THEN ErrToManyRequests
    ELSE Nil

\* C15: drain is best effort: Consume returns the error its read, check and
\* increment settled, whether its drain succeeded or failed with a store
\* error; a failed drain turns no accept into an error and no reject into an
\* accept.
C15_DrainBestEffort ==
    \A c \in Callers :
        call[c].pc = "rt" => call[c].cerr = Determined(call[c])

\* A Consume that accepted although its drain failed.
C15_Witness ==
    \E c \in Callers :
        /\ call[c].pc = "rt"
        /\ "drain" \in call[c].faulted
        /\ call[c].incremented
        /\ call[c].cerr = Nil

\* No other caller of c's Bucket has run or is running.
Alone(c) ==
    \A d \in Callers \ {c} :
        BucketOf(d) = BucketOf(c) => (call[d].pc = "idle" /\ Len(out[d]) = 0)

\* A Consume about to return whose read succeeded and found the counter at
\* Capacity or above.
ReadAtCapacity(c) ==
    /\ call[c].pc = "rt"
    /\ "get" \notin call[c].faulted
    /\ call[c].n >= Capacity

\* C13 as stated: a Consume that reads a counter >= Capacity returns
\* ErrToManyRequests without incrementing, and the State it returns equals
\* the Bucket's cached state (Capacity, Space, Reset) right before the call.
C13_RejectStateUntouched ==
    \A c \in Callers :
        ReadAtCapacity(c) =>
            /\ call[c].cerr = ErrToManyRequests
            /\ ~call[c].incremented
            /\ call[c].state = call[c].pre

\* C13 amended: such a Consume returns ErrToManyRequests without
\* incrementing, and its State carries the Capacity and, when no other
\* caller shares the Bucket, the Space cached before the call; Reset is left
\* to the drain the call triggers.
C13_RejectKeepsSpace ==
    \A c \in Callers :
        ReadAtCapacity(c) =>
            /\ call[c].cerr = ErrToManyRequests
            /\ ~call[c].incremented
            /\ call[c].state.Capacity = call[c].pre.Capacity
            /\ Alone(c) => call[c].state.Space = call[c].pre.Space

\* A rejected read on a Bucket nobody else uses, whose drain moved Reset.
C13_Witness ==
    \E c \in Callers :
        /\ ReadAtCapacity(c)
        /\ Alone(c)
        /\ call[c].faulted = {}
        /\ call[c].state.Reset # call[c].pre.Reset

\* C18: every read and write of the cached space and reset happens under
\* the Bucket's mutex, so that the State a Consume returns is a snapshot:
\* the cached state as it was at one instant of the call.
C18_ConsistentSnapshot ==
    \A c \in Callers :
        call[c].pc = "rt" => call[c].state \in call[c].seen

\* Time order with the zero time first.
NotBefore(a, b) == b.zero \/ (~a.zero /\ a.ms >= b.ms)

\* C16: drain calls repeated with no Consume in between leave the cached
\* Space as it was, and the cached Reset never moves back from one call to
\* the next while the key's window has not elapsed.
C16_DrainIdempotent ==
    \A c \in Callers :
        LET o == call[c].obs
        IN  \A i \in 2..Len(o) :
                /\ o[i].state.Space = o[1].state.Space
                /\ (o[i].win > 0 /\ o[i].win = o[i-1].win /\ o[i].t <= o[i].win)
                     => NotBefore(o[i].state.Reset, o[i-1].state.Reset)

====
